---- MODULE Spec2Model ----
(***************************************************************************)
(* Treasure-authoring workflow of the AR treasure hunt application:        *)
(* the hide-treasures page (capture, name, crop, validate, clue builder,   *)
(* save), the API handlers it calls (validate-and-upload-image,            *)
(* update-web-config), the treasure dashboard with the delete-treasure     *)
(* handler, and the remote configuration / asset server all of them talk   *)
(* to.                                                                     *)
(*                                                                         *)
(* React state is modelled by one variable per useState hook.  A handler   *)
(* that awaits a request is split at the await: the values its closure     *)
(* captured at the click travel with the request in flight.                *)
(***************************************************************************)
EXTENDS Integers, Sequences, FiniteSets, TLC

\* ---------------------------------------------------------------- constants
MinValidationScore == 75
FallbackScore == 85
DefaultMaxTreasures == 5
NumCameraConfigs == 3
InitialCropOffset == 50
InitialCropSize == 200
MinCropSize == 50

\* ------------------------------------------------------------------- bounds
MaxSaves == 2      \* saveClueAndContinue calls in one run
MaxLoads == 1      \* loadExistingTreasures calls in flight
MaxVals == 1       \* crop / validation requests in flight
MaxPubs == 1       \* save continuations (publish requests) in flight
MaxQuota == 2      \* largest quota typed into the setup form
MaxDels == 1       \* deleteTreasure calls of the dashboard in flight
MaxStreams == 2    \* MediaStreams running at once
MaxFixes == 1      \* position calls of captureImage awaiting their fix

\* ------------------------------------------------------------------- inputs
\* Text is a sequence of one-character strings.
LabelInputs == { <<>>, <<"A">> }
ClueInputs == { <<"T", " ">> }
InstructionInputs == { <<"I">> }
CodeInputs == { <<"S">> }
QuotaInputs == 1..MaxQuota
\* Frame sizes of the camera; the displayed image is measured at the frame's
\* size or at half of it, so that every scaled coordinate is a whole number.
DefaultVideo == [width |-> 640, height |-> 480]
VideoSizes == { DefaultVideo, [width |-> 160, height |-> 120] }
DisplaySizesOf(size) ==
  { size, [width |-> size.width \div 2, height |-> size.height \div 2] }
\* Pointer travel of one move or resize event, in displayed pixels
DragDeltas == { -500, 150 }
\* Scores the validator tool may print: around the threshold, and none.
ToolScores == { 0, MinValidationScore - 1, MinValidationScore, MinValidationScore + 1 }

\* ------------------------------------------------------------ text helpers
IsSpace(c) == c = " "

ToLowerChar(c) == IF c = "A" THEN "a" ELSE IF c = "B" THEN "b" ELSE c

ToLowerCase(s) == [i \in 1..Len(s) |-> ToLowerChar(s[i])]

RECURSIVE TrimStart(_)
TrimStart(s) == IF s # <<>> /\ IsSpace(Head(s)) THEN TrimStart(Tail(s)) ELSE s

RECURSIVE TrimEnd(_)
TrimEnd(s) ==
  IF s # <<>> /\ IsSpace(s[Len(s)]) THEN TrimEnd(SubSeq(s, 1, Len(s) - 1)) ELSE s

Trim(s) == TrimEnd(TrimStart(s))

\* name.replace(/\s+/g, '_'): every run of whitespace becomes one underscore
RECURSIVE ReplaceSpaceRuns(_)
ReplaceSpaceRuns(s) ==
  IF s = <<>> THEN <<>>
  ELSE IF IsSpace(Head(s)) THEN <<"_">> \o ReplaceSpaceRuns(TrimStart(s))
  ELSE <<Head(s)>> \o ReplaceSpaceRuns(Tail(s))

\* ---------------------------------------------------------------- variables
VARIABLES
  currentStep,      \* PageStep
  treasureCount,
  maxTreasures,
  gpsPermission,
  currentLocation,  \* <<>> (null), <<"gps">> (a position fix) or <<"zero">> ({0, 0})
  treasures,        \* TreasureData[] held by the page
  cameraStream,     \* TRUE while the page holds a MediaStream
  capturedImage,    \* TRUE while a captured frame is retained
  imageName,        \* marker label typed by the operator
  isNamingImage,
  isProcessing,
  currentTreasure,  \* <<>> (null) or <<partial record>>
  clueText,
  hasPhysicalGame,
  physicalInstruction,
  secretCode,
  loads,            \* loadExistingTreasures fetches in flight
  vals,             \* crops / validation requests in flight
  pubs,             \* saveClueAndContinue calls suspended at the publish
  saves,            \* saveClueAndContinue calls made so far
  lastClueIndex,    \* history: clueIndex of the session's last save, or -1
  streams,          \* MediaStreams acquired by the page and still running
  remote,           \* configuration document on the remote server
  assets,           \* file names in the remote asset store
  page,             \* the page the browser shows
  dashTreasures,    \* record list held by the treasure dashboard
  dels,             \* deleteTreasure calls of the dashboard in flight
  cropArea,         \* crop rectangle [x, y, width, height]
  imageDimensions,  \* displayed size of the captured image, as last measured
  naturalSize,      \* pixel size of the captured image
  fixes,            \* getCurrentPosition calls of captureImage awaiting their fix
  captureFix,       \* history: fix given to the latest capture's call, or <<>>
  store,            \* the realtime tree: uid -> node
  listeners,        \* 'value' callbacks registered on the root
  subscription,     \* status "none", "active" or "ended" (unsubscribe called); n counts the calls
  dirty,            \* the registered callbacks that are owed a value event
  teams,            \* the roster last handed to the callback of subscribeToTeams
  fetched,          \* result of the last getAllTeams call
  ups,              \* updatePhysicalScore calls in flight
  physicalScoreTable, \* uid -> PhysicalScoreEntry[] held by the dashboard
  timers,           \* debounced auto-saves that are armed
  entrySaves,       \* savePhysicalScoreEntries calls in flight
  now               \* Date.now(), as the number of row ids issued so far

authorVars ==
  << currentStep, treasureCount, maxTreasures, gpsPermission, treasures,
     cameraStream, capturedImage, imageName, isNamingImage, isProcessing,
     currentTreasure, clueText, hasPhysicalGame, physicalInstruction,
     secretCode, loads, vals, pubs, saves, lastClueIndex, currentLocation,
     streams, cropArea, imageDimensions, naturalSize, fixes, captureFix >>

serverVars == << remote, assets >>

browserVars == << page, dashTreasures, dels >>

\* What no page reads: the count of saves and the session's last clueIndex
history == << saves, lastClueIndex >>

\* The device side of the page: position fix and running streams
device == << currentLocation, streams >>

\* What a capture sets up: the crop rectangle and the position request
captureVars == << cropArea, imageDimensions, naturalSize, fixes, captureFix >>

\* The team store and the volunteer dashboard
teamVars ==
  << store, listeners, subscription, dirty, teams, fetched, ups,
     physicalScoreTable, timers, entrySaves, now >>

vars == << authorVars, serverVars, browserVars, teamVars >>

\* --------------------------------------------------------------- team store
\* A node of the realtime tree is a function from field names to values.
\* An object value is a record; a value that is not an object is written
\* [primitive |-> v].
Uids == << "u1", "u2" >>

UidSet == { Uids[i] : i \in 1..Len(Uids) }

IsObject(v) == "primitive" \notin DOMAIN v

Has(node, field) == field \in DOMAIN node

LowerSession == [cluesCompleted |-> 2, currentClueNumber |-> 3, started |-> TRUE]

UpperSession == [currentClue |-> 1, gameStarted |-> TRUE]

Roster(n) == [teamName |-> "T", teamNumber |-> n, score |-> 0]

\* The team nodes the game may write: every combination of a nested
\* `session`, a nested `Session` and session fields on the node itself
TeamNodes ==
  UNION { { Roster(n),
            ("session" :> LowerSession) @@ Roster(n),
            ("Session" :> UpperSession) @@ Roster(n),
            ("session" :> LowerSession) @@ ("Session" :> UpperSession) @@ Roster(n),
            ("session" :> [primitive |-> "x"]) @@ ("Session" :> UpperSession)
               @@ Roster(n),
            ("session" :> [primitive |-> "x"]) @@ Roster(n),
            ("cluesCompleted" :> 1) @@ ("started" :> TRUE) @@ Roster(n),
            ("session" :> LowerSession) @@ ("cluesCompleted" :> 1) @@ Roster(n),
            ("Session" :> UpperSession) @@ ("status" :> "playing") @@ Roster(n) }
          : n \in { 1, 2 } }

\* Nodes of the tree that are no teams: an object without teamName and a
\* value that is not an object (the hunt status flag)
OtherNodes == { [score |-> 0], [primitive |-> TRUE] }

PotentialSessionFields ==
  << "currentClueNumber", "cluesCompleted", "gameStarted", "started", "status" >>

DefaultSession ==
  [cluesCompleted |-> 0, currentClueNumber |-> 0, started |-> FALSE,
   status |-> "not_started"]

\* A resolution that tries the upper-case `Session` before `session`
SessionOfUpperFirst(raw) ==
  IF Has(raw, "Session") /\ IsObject(raw.Session) THEN raw.Session
  ELSE IF Has(raw, "session") /\ IsObject(raw.session) THEN raw.session
  ELSE LET found == { PotentialSessionFields[i] : i \in 1..Len(PotentialSessionFields) }
                      \cap DOMAIN raw
       IN IF found # {} THEN [f \in found |-> raw[f]] ELSE DefaultSession

\* The session of a team node, as both readers of the tree resolve it
SessionOf(raw) ==
  IF Has(raw, "session") /\ IsObject(raw.session) THEN raw.session
  ELSE IF Has(raw, "Session") /\ IsObject(raw.Session) THEN raw.Session
  ELSE LET found == { PotentialSessionFields[i] : i \in 1..Len(PotentialSessionFields) }
                      \cap DOMAIN raw
       IN IF found # {} THEN [f \in found |-> raw[f]] ELSE DefaultSession

\* allData[uid] && typeof allData[uid] === 'object' && allData[uid].teamName
IsTeamNode(node) == IsObject(node) /\ Has(node, "teamName") /\ node.teamName # ""

\* { ...rawTeamData } with uid, physicalScore || 0, physicalScoreComment || ''
\* and the resolved session
TeamOf(uid, raw) ==
  ("uid" :> uid)
    @@ ("physicalScore" :> IF Has(raw, "physicalScore") THEN raw.physicalScore ELSE 0)
    @@ ("physicalScoreComment" :>
          IF Has(raw, "physicalScoreComment") THEN raw.physicalScoreComment ELSE <<>>)
    @@ ("session" :> SessionOf(raw))
    @@ raw

\* teamsArray.sort((a, b) => a.teamNumber - b.teamNumber): a stable sort
RECURSIVE InsertTeam(_, _)
InsertTeam(sorted, team) ==
  IF sorted = <<>> THEN << team >>
  ELSE LET last == sorted[Len(sorted)]
       IN IF last.teamNumber - team.teamNumber <= 0
          THEN Append(sorted, team)
          ELSE Append(InsertTeam(SubSeq(sorted, 1, Len(sorted) - 1), team), last)

RECURSIVE SortByTeamNumber(_)
SortByTeamNumber(list) ==
  IF list = <<>> THEN <<>>
  ELSE InsertTeam(SortByTeamNumber(SubSeq(list, 1, Len(list) - 1)), list[Len(list)])

\* The loop over the snapshot's keys, in key order
RECURSIVE TeamsArray(_, _)
TeamsArray(allData, k) ==
  IF k > Len(Uids) THEN <<>>
  ELSE LET uid == Uids[k]
       IN (IF uid \in DOMAIN allData /\ IsTeamNode(allData[uid])
           THEN << TeamOf(uid, allData[uid]) >>
           ELSE <<>>) \o TeamsArray(allData, k + 1)

\* The roster both getAllTeams and the listener of subscribeToTeams build
TeamsOf(allData) == SortByTeamNumber(TeamsArray(allData, 1))

EmptyTree == [u \in {} |-> <<>>]

TeamsInit ==
  /\ store = EmptyTree
  /\ listeners = {}
  /\ subscription = [status |-> "none", n |-> 0]
  /\ dirty = {}
  /\ teams = <<>>
  /\ fetched = <<>>
  /\ ups = <<>>
  /\ physicalScoreTable = EmptyTree
  /\ timers = EmptyTree
  /\ entrySaves = <<>>
  /\ now = 0

\* ------------------------------------------------------------------ documents

Init ==
  /\ currentStep = "setup"
  /\ treasureCount = 0
  /\ maxTreasures = DefaultMaxTreasures
  /\ gpsPermission = FALSE
  /\ treasures = <<>>
  /\ cameraStream = FALSE
  /\ capturedImage = FALSE
  /\ imageName = <<>>
  /\ isNamingImage = FALSE
  /\ isProcessing = FALSE
  /\ currentTreasure = <<>>
  /\ clueText = <<>>
  /\ hasPhysicalGame = FALSE
  /\ physicalInstruction = <<>>
  /\ secretCode = <<>>
  /\ loads = 1
  /\ vals = <<>>
  /\ pubs = <<>>
  /\ saves = 0
  /\ lastClueIndex = -1
  /\ currentLocation = <<>>
  /\ streams = 0
  /\ remote = [images |-> <<>>, totalTreasures |-> 0]
  /\ assets = {}
  /\ page = "hide-treasures"
  /\ dashTreasures = <<>>
  /\ dels = <<>>
  /\ cropArea = [x |-> InitialCropOffset, y |-> InitialCropOffset,
                 width |-> InitialCropSize, height |-> InitialCropSize]
  /\ imageDimensions = [width |-> 0, height |-> 0]
  /\ naturalSize = [width |-> 0, height |-> 0]
  /\ fixes = <<>>
  /\ captureFix = <<>>
  /\ TeamsInit

\* ------------------------------------------------------- sequence helpers
RemoveAt(s, i) == SubSeq(s, 1, i - 1) \o SubSeq(s, i + 1, Len(s))

ReplaceAt(s, i, e) == [s EXCEPT ![i] = e]

\* t => t.imageName !== imageName, as used by both filters
WithoutImageName(list, name) == SelectSeq(list, LAMBDA t : t.imageName # name)

\* ------------------------------------- validate-and-upload-image (server)
AlnumChars == { "a", "b", "A", "B", "T", "I", "S" }

\* imageName.replace(/[^a-zA-Z0-9]/g, '_') + '.png'
ImageFileName(name) ==
  [i \in 1..Len(name) |-> IF name[i] \in AlnumChars THEN name[i] ELSE "_"]
    \o <<".png">>

\* What running the validator tool gave: output with the number parsed from
\* it, output that holds no number (the score stays 0), or a failed invocation.
ToolOutcomes ==
  { [kind |-> "error", score |-> 0], [kind |-> "unparsed", score |-> 0] }
    \cup { [kind |-> "output", score |-> s] : s \in ToolScores }

ValidationScore(tool) == IF tool.kind = "error" THEN FallbackScore ELSE tool.score

ValidateHandler(name, tool, uploadOk) ==
  LET score == ValidationScore(tool)
      upload == score >= MinValidationScore
  IN [status |-> "ok",
      success |-> score >= MinValidationScore,
      score |-> score,
      uploadTried |-> upload,
      uploaded |-> upload /\ uploadOk,
      file |-> ImageFileName(name),
      tool |-> tool.kind]

\* The handler's 500 reply, a request that threw, and no reply yet
HandlerFailed == [status |-> "failed", success |-> FALSE, score |-> 0,
                  uploadTried |-> FALSE, uploaded |-> FALSE, file |-> <<>>,
                  tool |-> "none"]

RequestThrew == [status |-> "thrown", success |-> FALSE, score |-> 0,
                 uploadTried |-> FALSE, uploaded |-> FALSE, file |-> <<>>,
                 tool |-> "none"]

NoResult == [status |-> "none", success |-> FALSE, score |-> 0,
             uploadTried |-> FALSE, uploaded |-> FALSE, file |-> <<>>,
             tool |-> "none"]

ValidationReplies(name) ==
  { HandlerFailed, RequestThrew }
    \cup { ValidateHandler(name, tool, uploadOk) :
             tool \in ToolOutcomes, uploadOk \in BOOLEAN }

\* ------------------------------------------------- hide-treasures: effects
\* useEffect(..., [cameraStream, currentStep]) calls loadExistingTreasures
\* again whenever the step or the stream differs from the previous render.
EffectFires(step2, stream2) == step2 # currentStep \/ stream2 # cameraStream

EffectRoom(step2, stream2) == EffectFires(step2, stream2) => loads < MaxLoads

LoadsAfter(step2, stream2) == IF EffectFires(step2, stream2) THEN loads + 1 ELSE loads

\* loadExistingTreasures, once its fetch of {base}/config has settled
LoadExistingTreasures ==
  /\ page = "hide-treasures"
  /\ loads > 0
  /\ loads' = loads - 1
  /\ \E ok \in BOOLEAN :
       IF ok
       THEN /\ treasures' = remote.images
            /\ treasureCount' = Len(remote.images)
       ELSE /\ treasures' = <<>>
            /\ treasureCount' = 0
  /\ UNCHANGED << history, device, currentStep, maxTreasures, gpsPermission, cameraStream,
                  capturedImage, imageName, isNamingImage, isProcessing,
                  currentTreasure, clueText, hasPhysicalGame,
                  physicalInstruction, secretCode, vals, pubs >>
  /\ UNCHANGED << serverVars, browserVars, teamVars, captureVars >>

\* -------------------------------------------------- hide-treasures: setup
\* requestGPSPermission, called by the effect on mount and again on every
\* change of step or stream, once getCurrentPosition has settled: a position
\* fix, or a denial, time-out or missing API.  Every branch sets gpsPermission.
RequestGPS(outcomes) ==
  /\ page = "hide-treasures"
  /\ \E outcome \in outcomes :
       currentLocation' = IF outcome = "position" THEN <<"gps">>
                          ELSE currentLocation
  /\ gpsPermission' = TRUE
  /\ ~gpsPermission \/ currentLocation' # currentLocation
  /\ UNCHANGED << history, streams, currentStep, treasureCount, maxTreasures, treasures,
                  cameraStream, capturedImage, imageName, isNamingImage,
                  isProcessing, currentTreasure, clueText, hasPhysicalGame,
                  physicalInstruction, secretCode, loads, vals, pubs >>
  /\ UNCHANGED << serverVars, browserVars, teamVars, captureVars >>

\* On a device that answers every position request with a fix
RequestGPSPermission == RequestGPS({ "position" })

RequestGPSPermissionAnyOutcome ==
  RequestGPS({ "position", "denied", "unavailable" })

\* Skip GPS & Test Camera, shown while gpsPermission is not set
SkipGPS ==
  /\ page = "hide-treasures"
  /\ currentStep = "setup"
  /\ ~gpsPermission
  /\ gpsPermission' = TRUE
  /\ currentLocation' = <<"zero">>
  /\ UNCHANGED << history, streams, currentStep, treasureCount, maxTreasures,
                  treasures, cameraStream, capturedImage, imageName,
                  isNamingImage, isProcessing, currentTreasure, clueText,
                  hasPhysicalGame, physicalInstruction, secretCode, loads,
                  vals, pubs >>
  /\ UNCHANGED << serverVars, browserVars, teamVars, captureVars >>

\* testCameraAccess: the stream it is given is neither kept in cameraStream
\* nor stopped
TestCameraAccess ==
  /\ page = "hide-treasures"
  /\ currentStep = "setup"
  /\ \E acquired \in BOOLEAN :
       IF acquired
       THEN streams < MaxStreams /\ streams' = streams + 1
       ELSE streams' = streams
  /\ streams' # streams
  /\ UNCHANGED << history, currentLocation, currentStep, treasureCount,
                  maxTreasures, gpsPermission, treasures, cameraStream,
                  capturedImage, imageName, isNamingImage, isProcessing,
                  currentTreasure, clueText, hasPhysicalGame,
                  physicalInstruction, secretCode, loads, vals, pubs >>
  /\ UNCHANGED << serverVars, browserVars, teamVars, captureVars >>

SetMaxTreasures ==
  /\ page = "hide-treasures"
  /\ currentStep = "setup"
  /\ \E n \in QuotaInputs : maxTreasures' = n
  /\ UNCHANGED << history, device, currentStep, treasureCount, gpsPermission, treasures,
                  cameraStream, capturedImage, imageName, isNamingImage,
                  isProcessing, currentTreasure, clueText, hasPhysicalGame,
                  physicalInstruction, secretCode, loads, vals, pubs >>
  /\ UNCHANGED << serverVars, browserVars, teamVars, captureVars >>

\* The camera configurations, from most to least constrained
CameraConfigs == 1..NumCameraConfigs

\* The loop over the configurations: those tried, in order, up to the first
\* that getUserMedia grants (works[c]: whether it grants configuration c)
ConfigsTried(works) ==
  LET granted == { c \in CameraConfigs : works[c] }
      last == IF granted = {} THEN NumCameraConfigs
              ELSE CHOOSE c \in granted : \A d \in granted : c <= d
  IN [c \in 1..last |-> c]

\* The loop leaves a stream exactly when the last configuration it tried was
\* granted; a stream granted to a video request carries a video track.
StreamAcquired(works) ==
  LET tried == ConfigsTried(works)
  IN works[tried[Len(tried)]]

\* Start Hunt (setup, needs gpsPermission) and Retry Camera (capture, no stream).
\* A stream held before is stopped by the cleanup of the [cameraStream] effect
\* when the new one replaces it.
StartHidingTreasures ==
  /\ page = "hide-treasures"
  /\ \/ currentStep = "setup" /\ gpsPermission
     \/ currentStep = "capture" /\ ~cameraStream
  /\ \E works \in [CameraConfigs -> BOOLEAN] :
       IF StreamAcquired(works)
       THEN /\ EffectRoom("capture", TRUE)
            /\ loads' = LoadsAfter("capture", TRUE)
            /\ cameraStream' = TRUE
            /\ streams' = IF cameraStream THEN streams ELSE streams + 1
            /\ currentStep' = "capture"
       ELSE UNCHANGED << cameraStream, currentStep, loads, streams >>
  /\ UNCHANGED << history, currentLocation, treasureCount, maxTreasures, gpsPermission, treasures,
                  capturedImage, imageName, isNamingImage, isProcessing,
                  currentTreasure, clueText, hasPhysicalGame,
                  physicalInstruction, secretCode, vals, pubs >>
  /\ UNCHANGED << serverVars, browserVars, teamVars, captureVars >>

\* ------------------------------------------- hide-treasures: capture, crop
Max(a, b) == IF a >= b THEN a ELSE b

Min(a, b) == IF a <= b THEN a ELSE b

\* The crop rectangle captureImage sets: centred in the video frame
InitialCropArea(video) ==
  [x |-> Max(0, (video.width - InitialCropSize) \div 2),
   y |-> Max(0, (video.height - InitialCropSize) \div 2),
   width |-> Min(InitialCropSize, video.width),
   height |-> Min(InitialCropSize, video.height)]

\* The position calls still awaited all belong to earlier captures now
Earlier(calls) == [i \in 1..Len(calls) |-> "earlier"]

\* captureImage on a frame of one of the sizes `videos`.  Its position call
\* is awaited while fewer than fixRoom calls are; a call beyond that is one
\* that is never answered (the call is made without an error callback).
Capture(videos, fixRoom) ==
  /\ page = "hide-treasures"
  /\ currentStep = "capture"
  /\ cameraStream
  /\ EffectRoom("crop", cameraStream)
  /\ loads' = LoadsAfter("crop", cameraStream)
  /\ capturedImage' = TRUE
  /\ \E video \in videos :
       /\ naturalSize' = video
       /\ cropArea' = InitialCropArea(video)
  /\ fixes' = IF Len(fixes) < fixRoom
              THEN Append(Earlier(fixes), "latest")
              ELSE Earlier(fixes)
  /\ captureFix' = <<>>
  /\ isNamingImage' = TRUE
  /\ currentStep' = "crop"
  /\ UNCHANGED << history, device, treasureCount, maxTreasures, gpsPermission, treasures,
                  cameraStream, imageName, isProcessing, currentTreasure,
                  clueText, hasPhysicalGame, physicalInstruction, secretCode,
                  vals, pubs, imageDimensions >>
  /\ UNCHANGED << serverVars, browserVars, teamVars >>

CaptureImage == Capture({ DefaultVideo }, 0)

CaptureImageAnyFrame == Capture(VideoSizes, 0)

CaptureImageWithFix == Capture({ DefaultVideo }, MaxFixes)

\* The success callback of a position call of captureImage
CapturePositionArrived ==
  \E i \in 1..Len(fixes), p \in { "gps", "moved" } :
    /\ page = "hide-treasures"
    /\ currentLocation' = <<p>>
    /\ fixes' = RemoveAt(fixes, i)
    /\ captureFix' = IF fixes[i] = "latest" THEN <<p>> ELSE captureFix
    /\ UNCHANGED << history, streams, currentStep, treasureCount, maxTreasures,
                    gpsPermission, treasures, cameraStream, capturedImage,
                    imageName, isNamingImage, isProcessing, currentTreasure,
                    clueText, hasPhysicalGame, physicalInstruction, secretCode,
                    loads, vals, pubs, cropArea, imageDimensions, naturalSize >>
    /\ UNCHANGED << serverVars, browserVars, teamVars >>

\* handleImageLoad: the displayed image is measured when it has loaded
HandleImageLoad ==
  /\ page = "hide-treasures"
  /\ currentStep = "crop"
  /\ capturedImage
  /\ \E size \in DisplaySizesOf(naturalSize) : imageDimensions' = size
  /\ imageDimensions' # imageDimensions
  /\ UNCHANGED << history, device, currentStep, treasureCount, maxTreasures,
                  gpsPermission, treasures, cameraStream, capturedImage,
                  imageName, isNamingImage, isProcessing, currentTreasure,
                  clueText, hasPhysicalGame, physicalInstruction, secretCode,
                  loads, vals, pubs, cropArea, naturalSize, fixes, captureFix >>
  /\ UNCHANGED << serverVars, browserVars, teamVars >>

\* A mousemove or touchmove of a drag of the crop overlay
MoveCropArea ==
  /\ page = "hide-treasures"
  /\ currentStep = "crop"
  /\ capturedImage
  /\ \E dx \in DragDeltas, dy \in DragDeltas :
       cropArea' =
         [cropArea EXCEPT
            !.x = Max(0, Min(imageDimensions.width - cropArea.width,
                             cropArea.x + dx)),
            !.y = Max(0, Min(imageDimensions.height - cropArea.height,
                             cropArea.y + dy))]
  /\ cropArea' # cropArea
  /\ UNCHANGED << history, device, currentStep, treasureCount, maxTreasures,
                  gpsPermission, treasures, cameraStream, capturedImage,
                  imageName, isNamingImage, isProcessing, currentTreasure,
                  clueText, hasPhysicalGame, physicalInstruction, secretCode,
                  loads, vals, pubs, imageDimensions, naturalSize, fixes,
                  captureFix >>
  /\ UNCHANGED << serverVars, browserVars, teamVars >>

\* A mousemove or touchmove of a drag of the overlay's resize handle
ResizeCropArea ==
  /\ page = "hide-treasures"
  /\ currentStep = "crop"
  /\ capturedImage
  /\ \E dx \in DragDeltas, dy \in DragDeltas :
       cropArea' =
         [cropArea EXCEPT
            !.width = Max(MinCropSize, Min(imageDimensions.width - cropArea.x,
                                           cropArea.width + dx)),
            !.height = Max(MinCropSize, Min(imageDimensions.height - cropArea.y,
                                            cropArea.height + dy))]
  /\ cropArea' # cropArea
  /\ UNCHANGED << history, device, currentStep, treasureCount, maxTreasures,
                  gpsPermission, treasures, cameraStream, capturedImage,
                  imageName, isNamingImage, isProcessing, currentTreasure,
                  clueText, hasPhysicalGame, physicalInstruction, secretCode,
                  loads, vals, pubs, imageDimensions, naturalSize, fixes,
                  captureFix >>
  /\ UNCHANGED << serverVars, browserVars, teamVars >>

\* The source rectangle cropImage cuts from an image of size `natural`:
\* the crop rectangle scaled from displayed to image pixels, or taken as
\* it is while the displayed image has not been measured
ActualCrop(area, dims, natural) ==
  IF dims.width = 0 \/ dims.height = 0
  THEN area
  ELSE [x |-> (area.x * natural.width) \div dims.width,
        y |-> (area.y * natural.height) \div dims.height,
        width |-> (area.width * natural.width) \div dims.width,
        height |-> (area.height * natural.height) \div dims.height]

SetImageNameTo(labels) ==
  /\ page = "hide-treasures"
  /\ currentStep = "crop"
  /\ isNamingImage
  /\ \E l \in labels : imageName' = l
  /\ UNCHANGED << history, device, currentStep, treasureCount, maxTreasures, gpsPermission,
                  treasures, cameraStream, capturedImage, isNamingImage,
                  isProcessing, currentTreasure, clueText, hasPhysicalGame,
                  physicalInstruction, secretCode, loads, vals, pubs >>
  /\ UNCHANGED << serverVars, browserVars, teamVars, captureVars >>

SetImageName == SetImageNameTo(LabelInputs)

\* Labels of two words
SetImageNameSpaced == SetImageNameTo({ <<"A", " ", "B">> })

\* Confirm Name, and the edit button that reopens the naming box
SetIsNamingImage ==
  /\ page = "hide-treasures"
  /\ currentStep = "crop"
  /\ IF isNamingImage
     THEN Trim(imageName) # <<>> /\ isNamingImage' = FALSE
     ELSE isNamingImage' = TRUE
  /\ UNCHANGED << history, device, currentStep, treasureCount, maxTreasures, gpsPermission,
                  treasures, cameraStream, capturedImage, imageName,
                  isProcessing, currentTreasure, clueText, hasPhysicalGame,
                  physicalInstruction, secretCode, loads, vals, pubs >>
  /\ UNCHANGED << serverVars, browserVars, teamVars, captureVars >>

RecaptureImage ==
  /\ page = "hide-treasures"
  /\ currentStep = "crop"
  /\ EffectRoom("capture", cameraStream)
  /\ loads' = LoadsAfter("capture", cameraStream)
  /\ capturedImage' = FALSE
  /\ imageName' = <<>>
  /\ isNamingImage' = FALSE
  /\ currentStep' = "capture"
  /\ UNCHANGED << history, device, treasureCount, maxTreasures, gpsPermission, treasures,
                  cameraStream, isProcessing, currentTreasure, clueText,
                  hasPhysicalGame, physicalInstruction, secretCode, vals, pubs >>
  /\ UNCHANGED << serverVars, browserVars, teamVars, captureVars >>

\* Crop click: the image load it starts keeps this render's imageName,
\* treasureCount and currentLocation in its closure.
CropImage ==
  /\ page = "hide-treasures"
  /\ currentStep = "crop"
  /\ ~isNamingImage
  /\ Trim(imageName) # <<>>
  /\ capturedImage
  /\ Len(vals) < MaxVals
  /\ vals' = Append(vals, [stage |-> "loading", name |-> imageName,
                           count |-> treasureCount, loc |-> currentLocation,
                           result |-> NoResult])
  /\ UNCHANGED << history, device, currentStep, treasureCount, maxTreasures, gpsPermission,
                  treasures, cameraStream, capturedImage, imageName,
                  isNamingImage, isProcessing, currentTreasure, clueText,
                  hasPhysicalGame, physicalInstruction, secretCode, loads, pubs >>
  /\ UNCHANGED << serverVars, browserVars, teamVars, captureVars >>

\* img.onload (crop done, request sent) or img.onerror (crop dropped)
CropImageLoaded ==
  \E i \in 1..Len(vals) :
    /\ page = "hide-treasures"
    /\ vals[i].stage = "loading"
    /\ \E loaded \in BOOLEAN :
         IF loaded
         THEN /\ EffectRoom("processing", cameraStream)
              /\ loads' = LoadsAfter("processing", cameraStream)
              /\ currentStep' = "processing"
              /\ isProcessing' = TRUE
              /\ vals' = ReplaceAt(vals, i, [vals[i] EXCEPT !.stage = "sent"])
         ELSE /\ vals' = RemoveAt(vals, i)
              /\ UNCHANGED << currentStep, isProcessing, loads >>
    /\ UNCHANGED << history, device, treasureCount, maxTreasures, gpsPermission, treasures,
                    cameraStream, capturedImage, imageName, isNamingImage,
                    currentTreasure, clueText, hasPhysicalGame,
                    physicalInstruction, secretCode, pubs >>
    /\ UNCHANGED << serverVars, browserVars, teamVars, captureVars >>

\* The validation request of one crop is handled (or throws): the handler
\* scores the image, uploads it when the score allows, and replies.
ValidateAndUploadImageHandler ==
  \E i \in 1..Len(vals) :
    /\ vals[i].stage = "sent"
    /\ \E result \in ValidationReplies(vals[i].name) :
         /\ vals' = ReplaceAt(vals, i, [vals[i] EXCEPT !.stage = "replied",
                                                      !.result = result])
         /\ assets' = IF result.uploaded THEN assets \cup { result.file }
                      ELSE assets
    /\ UNCHANGED << history, device, currentStep, treasureCount, maxTreasures, gpsPermission,
                    treasures, cameraStream, capturedImage, imageName,
                    isNamingImage, isProcessing, currentTreasure, clueText,
                    hasPhysicalGame, physicalInstruction, secretCode, loads,
                    pubs >>
    /\ UNCHANGED << remote, browserVars, teamVars, captureVars >>

\* ---------------------------------- hide-treasures: validateAndUploadImage
\* A client that moves on with whatever reply it receives
ClientAcceptsAnyReply(result) == result.status # "thrown"

\* result.success && result.score && result.score > minValidationScore
ClientAccepts(result) ==
  /\ result.status # "thrown"
  /\ result.success
  /\ result.score # 0
  /\ result.score > MinValidationScore

ClueImageName(count, name) ==
  <<"clue_", count, "_">> \o ReplaceSpaceRuns(ToLowerCase(name))

\* currentLocation?.latitude || 0
Coordinate(loc) == IF loc = <<>> THEN "zero" ELSE loc[1]

PartialTreasure(count, name, loc) ==
  [imageName |-> ClueImageName(count, name),
   fileName |-> name \o <<".png">>,
   clueIndex |-> count,
   clueName |-> name,
   latitude |-> Coordinate(loc),
   longitude |-> Coordinate(loc)]

\* A continuation whose catch block forgets to leave the processing step
StepAfterValidationStuckOnThrow(result) ==
  IF result.status = "thrown" THEN "processing"
  ELSE IF ClientAccepts(result) THEN "clue-builder" ELSE "capture"

\* The step set by the try branch, its else branch and the catch block
StepAfterValidation(result) ==
  IF ClientAccepts(result) THEN "clue-builder" ELSE "capture"

\* validateAndUploadImage after its awaits, with the reply of its request
ValidateAndUploadImage ==
  \E i \in 1..Len(vals) :
    /\ page = "hide-treasures"
    /\ vals[i].stage = "replied"
    /\ LET accepted == ClientAccepts(vals[i].result)
           step2 == StepAfterValidation(vals[i].result)
       IN /\ EffectRoom(step2, cameraStream)
          /\ loads' = LoadsAfter(step2, cameraStream)
          /\ currentStep' = step2
          /\ currentTreasure' =
               IF accepted
               THEN << PartialTreasure(vals[i].count, vals[i].name,
                                       vals[i].loc) >>
               ELSE currentTreasure
    /\ isProcessing' = FALSE
    /\ vals' = RemoveAt(vals, i)
    /\ UNCHANGED << history, device, treasureCount, maxTreasures, gpsPermission, treasures,
                    cameraStream, capturedImage, imageName, isNamingImage,
                    clueText, hasPhysicalGame, physicalInstruction, secretCode,
                    pubs >>
    /\ UNCHANGED << serverVars, browserVars, teamVars, captureVars >>

\* ------------------------------------------- hide-treasures: clue builder
SetClueText ==
  /\ page = "hide-treasures"
  /\ currentStep = "clue-builder"
  /\ \E t \in ClueInputs : clueText' = t
  /\ UNCHANGED << history, device, currentStep, treasureCount, maxTreasures, gpsPermission,
                  treasures, cameraStream, capturedImage, imageName,
                  isNamingImage, isProcessing, currentTreasure,
                  hasPhysicalGame, physicalInstruction, secretCode, loads,
                  vals, pubs >>
  /\ UNCHANGED << serverVars, browserVars, teamVars, captureVars >>

SetHasPhysicalGame ==
  /\ page = "hide-treasures"
  /\ currentStep = "clue-builder"
  /\ hasPhysicalGame' = ~hasPhysicalGame
  /\ UNCHANGED << history, device, currentStep, treasureCount, maxTreasures, gpsPermission,
                  treasures, cameraStream, capturedImage, imageName,
                  isNamingImage, isProcessing, currentTreasure, clueText,
                  physicalInstruction, secretCode, loads, vals, pubs >>
  /\ UNCHANGED << serverVars, browserVars, teamVars, captureVars >>

\* The two inputs shown while hasPhysicalGame is on
SetPhysicalGameFields ==
  /\ page = "hide-treasures"
  /\ currentStep = "clue-builder"
  /\ hasPhysicalGame
  /\ \E ins \in InstructionInputs, code \in CodeInputs :
       /\ physicalInstruction' = ins
       /\ secretCode' = code
  /\ UNCHANGED << history, device, currentStep, treasureCount, maxTreasures, gpsPermission,
                  treasures, cameraStream, capturedImage, imageName,
                  isNamingImage, isProcessing, currentTreasure, clueText,
                  hasPhysicalGame, loads, vals, pubs >>
  /\ UNCHANGED << serverVars, browserVars, teamVars, captureVars >>

CompleteTreasure ==
  [imageName |-> currentTreasure[1].imageName,
   fileName |-> currentTreasure[1].fileName,
   clueIndex |-> currentTreasure[1].clueIndex,
   clueName |-> currentTreasure[1].clueName,
   latitude |-> currentTreasure[1].latitude,
   longitude |-> currentTreasure[1].longitude,
   clueText |-> Trim(clueText),
   hasPhysicalGame |-> hasPhysicalGame,
   physicalGameInstruction |-> IF hasPhysicalGame THEN physicalInstruction ELSE <<>>,
   physicalGameSecretCode |-> IF hasPhysicalGame THEN secretCode ELSE <<>>]

\* ------------------------------------------------ update-web-config (server)
\* A document that counts the records held before the last one was added
WebConfigShortByOne(list) == [images |-> list, totalTreasures |-> Len(list) - 1]

\* webConfig, without its lastUpdated time stamp
WebConfigOf(list) == [images |-> list, totalTreasures |-> Len(list)]

\* The handler's progress: the document it built, what it has put in each of
\* the three stores (<<>>: nothing), the writes attempted in order, its reply.
PublishBegin(list) ==
  [doc |-> WebConfigOf(list), localFile |-> <<>>, pushed |-> <<>>,
   publicFile |-> <<>>, attempts |-> <<>>, response |-> <<>>]

SaveLocally(st, ok) ==
  [st EXCEPT !.localFile = IF ok THEN << st.doc >> ELSE @,
             !.attempts = Append(@, [target |-> "local", ok |-> ok])]

UploadToServer(st, ok) ==
  [st EXCEPT !.pushed = IF ok THEN << st.doc >> ELSE @,
             !.attempts = Append(@, [target |-> "remote", ok |-> ok])]

SavePublicCopy(st, ok) ==
  [st EXCEPT !.publicFile = IF ok THEN << st.doc >> ELSE @,
             !.attempts = Append(@, [target |-> "public", ok |-> ok])]

PublishRespond(st) ==
  [st EXCEPT !.response = << [success |-> TRUE,
                              configPath |-> "Web-config.JSON",
                              treasureCount |-> Len(st.doc.images)] >>]

\* A handler that adds the submitted records to the published ones
UpdateWebConfigAccumulating(list, localOk, serverOk, publicOk) ==
  PublishRespond(
    SavePublicCopy(
      UploadToServer(
        SaveLocally(PublishBegin(remote.images \o list), localOk), serverOk),
      publicOk))

\* A handler that gives up when the remote push fails
UpdateWebConfigGivingUp(list, localOk, serverOk, publicOk) ==
  IF serverOk
  THEN PublishRespond(
         SavePublicCopy(
           UploadToServer(
             SaveLocally(PublishBegin(list), localOk), serverOk), publicOk))
  ELSE UploadToServer(SaveLocally(PublishBegin(list), localOk), serverOk)

UpdateWebConfigHandler(list, localOk, serverOk, publicOk) ==
  PublishRespond(
    SavePublicCopy(
      UploadToServer(
        SaveLocally(PublishBegin(list), localOk), serverOk), publicOk))

\* A publish request that threw before any reply
NoRun == [doc |-> WebConfigOf(<<>>), localFile |-> <<>>, pushed |-> <<>>,
          publicFile |-> <<>>, attempts |-> <<>>, response |-> <<>>]

\* ------------------------------------- hide-treasures: saveClueAndContinue
\* Up to its await: the list is extended and sent; the rest of the call
\* keeps this render's treasureCount and maxTreasures.  The button stays
\* enabled while earlier calls wait for their publish request; room bounds
\* the calls waiting at once.
SaveClue(room) ==
  /\ page = "hide-treasures"
  /\ currentStep = "clue-builder"
  /\ Trim(clueText) # <<>>
  /\ currentTreasure # <<>>
  /\ saves < MaxSaves
  /\ saves' = saves + 1
  /\ lastClueIndex' = currentTreasure[1].clueIndex
  /\ Len(pubs) < room
  /\ treasures' = Append(treasures, CompleteTreasure)
  /\ pubs' = Append(pubs, [stage |-> "sent",
                           treasures |-> Append(treasures, CompleteTreasure),
                           count |-> treasureCount,
                           max |-> maxTreasures,
                           reached |-> FALSE,
                           run |-> NoRun])
  /\ UNCHANGED << device, currentStep, treasureCount, maxTreasures, gpsPermission,
                  cameraStream, capturedImage, imageName, isNamingImage,
                  isProcessing, currentTreasure, clueText, hasPhysicalGame,
                  physicalInstruction, secretCode, loads, vals >>
  /\ UNCHANGED << serverVars, browserVars, teamVars, captureVars >>

SaveClueAndContinue == SaveClue(MaxPubs)

\* A click on Save & Continue with room for one more call in flight
SaveClueAndContinueTwice == SaveClue(MaxPubs + 1)

\* The publish request of one suspended save is handled, or throws on the way
UpdateWebConfig ==
  \E i \in 1..Len(pubs) :
    /\ pubs[i].stage = "sent"
    /\ \E reached \in BOOLEAN :
         IF reached
         THEN \E localOk \in BOOLEAN, serverOk \in BOOLEAN, publicOk \in BOOLEAN :
                LET st == UpdateWebConfigHandler(pubs[i].treasures, localOk,
                                                 serverOk, publicOk)
                IN /\ remote' = IF st.pushed # <<>> THEN st.pushed[1] ELSE remote
                   /\ pubs' = ReplaceAt(pubs, i,
                                [pubs[i] EXCEPT !.stage = "done", !.treasures = <<>>,
                                                 !.reached = TRUE, !.run = st])
         ELSE /\ remote' = remote
              /\ pubs' = ReplaceAt(pubs, i,
                           [pubs[i] EXCEPT !.stage = "done", !.treasures = <<>>])
    /\ UNCHANGED << history, device, currentStep, treasureCount, maxTreasures, gpsPermission,
                    treasures, cameraStream, capturedImage, imageName,
                    isNamingImage, isProcessing, currentTreasure, clueText,
                    hasPhysicalGame, physicalInstruction, secretCode, loads,
                    vals >>
    /\ UNCHANGED << assets, browserVars, teamVars, captureVars >>

\* saveClueAndContinue after the await
SaveContinue ==
  \E i \in 1..Len(pubs) :
    /\ page = "hide-treasures"
    /\ pubs[i].stage = "done"
    /\ pubs' = RemoveAt(pubs, i)
    /\ treasureCount' = pubs[i].count + 1
    /\ IF pubs[i].count + 1 >= pubs[i].max
       THEN /\ EffectRoom("complete", cameraStream)
            /\ loads' = LoadsAfter("complete", cameraStream)
            /\ currentStep' = "complete"
            /\ UNCHANGED << capturedImage, imageName, isNamingImage,
                            currentTreasure, clueText, hasPhysicalGame,
                            physicalInstruction, secretCode >>
       ELSE \E continueHiding \in BOOLEAN :
              IF continueHiding
              THEN /\ EffectRoom("capture", cameraStream)
                   /\ loads' = LoadsAfter("capture", cameraStream)
                   /\ currentStep' = "capture"
                   \* resetForNextTreasure
                   /\ capturedImage' = FALSE
                   /\ imageName' = <<>>
                   /\ isNamingImage' = FALSE
                   /\ currentTreasure' = <<>>
                   /\ clueText' = <<>>
                   /\ hasPhysicalGame' = FALSE
                   /\ physicalInstruction' = <<>>
                   /\ secretCode' = <<>>
              ELSE /\ EffectRoom("complete", cameraStream)
                   /\ loads' = LoadsAfter("complete", cameraStream)
                   /\ currentStep' = "complete"
                   /\ UNCHANGED << capturedImage, imageName, isNamingImage,
                                   currentTreasure, clueText, hasPhysicalGame,
                                   physicalInstruction, secretCode >>
    /\ UNCHANGED << history, device, maxTreasures, gpsPermission, treasures, cameraStream,
                    isProcessing, vals >>
    /\ UNCHANGED << serverVars, browserVars, teamVars, captureVars >>

\* --------------------------------------- hide-treasures: end / new session
EndSession ==
  /\ page = "hide-treasures"
  /\ currentStep \in { "capture", "clue-builder" }
  /\ EffectRoom("complete", FALSE)
  /\ loads' = LoadsAfter("complete", FALSE)
  /\ cameraStream' = FALSE
  /\ streams' = IF cameraStream THEN streams - 1 ELSE streams
  /\ currentStep' = "complete"
  /\ UNCHANGED << history, currentLocation, treasureCount, maxTreasures, gpsPermission, treasures,
                  capturedImage, imageName, isNamingImage, isProcessing,
                  currentTreasure, clueText, hasPhysicalGame,
                  physicalInstruction, secretCode, vals, pubs >>
  /\ UNCHANGED << serverVars, browserVars, teamVars, captureVars >>

StartNewSession ==
  /\ page = "hide-treasures"
  /\ currentStep = "complete"
  /\ EffectRoom("setup", cameraStream)
  /\ loads' = LoadsAfter("setup", cameraStream)
  /\ currentStep' = "setup"
  /\ treasureCount' = 0
  /\ treasures' = <<>>
  /\ lastClueIndex' = -1
  \* resetForNextTreasure
  /\ capturedImage' = FALSE
  /\ imageName' = <<>>
  /\ isNamingImage' = FALSE
  /\ currentTreasure' = <<>>
  /\ clueText' = <<>>
  /\ hasPhysicalGame' = FALSE
  /\ physicalInstruction' = <<>>
  /\ secretCode' = <<>>
  /\ UNCHANGED << saves, device, maxTreasures, gpsPermission, cameraStream,
                  isProcessing, vals, pubs >>
  /\ UNCHANGED << serverVars, browserVars, teamVars, captureVars >>

\* -------------------------------------------------- delete-treasure (server)
\* A handler that pushes whatever list it is left with, fetched or not
DeleteTreasureAlwaysPushing(name, fileName, fetchOk, deleteOk, pushOk) ==
  LET currentTreasures == IF fetchOk THEN remote.images ELSE <<>>
      updatedTreasures == WithoutImageName(currentTreasures, name)
      updatedConfig == [images |-> updatedTreasures,
                        totalTreasures |-> Len(updatedTreasures)]
  IN [status |-> "ok",
      fetchOk |-> fetchOk,
      fetched |-> Len(currentTreasures),
      assets |-> IF deleteOk THEN assets \ { fileName } ELSE assets,
      pushed |-> << updatedConfig >>,
      remote |-> IF pushOk THEN updatedConfig ELSE remote,
      success |-> TRUE,
      imageDeleted |-> deleteOk,
      configUpdated |-> pushOk,
      treasureRemoved |-> name]

DeleteTreasureHandler(name, fileName, fetchOk, deleteOk, pushOk) ==
  LET currentTreasures == IF fetchOk THEN remote.images ELSE <<>>
      updatedTreasures == WithoutImageName(currentTreasures, name)
      updatedConfig == [images |-> updatedTreasures,
                        totalTreasures |-> Len(updatedTreasures)]
      pushTried == Len(currentTreasures) > 0
  IN [status |-> "ok",
      fetchOk |-> fetchOk,
      fetched |-> Len(currentTreasures),
      assets |-> IF deleteOk THEN assets \ { fileName } ELSE assets,
      pushed |-> IF pushTried THEN << updatedConfig >> ELSE <<>>,
      remote |-> IF pushTried /\ pushOk THEN updatedConfig ELSE remote,
      success |-> TRUE,
      imageDeleted |-> deleteOk,
      configUpdated |-> pushTried /\ pushOk,
      treasureRemoved |-> name]

\* A delete request that threw, and no reply yet
DeleteThrew ==
  [status |-> "thrown", fetchOk |-> FALSE, fetched |-> 0, assets |-> assets,
   pushed |-> <<>>, remote |-> remote, success |-> FALSE,
   imageDeleted |-> FALSE, configUpdated |-> FALSE, treasureRemoved |-> <<>>]

NoReply ==
  [status |-> "none", fetchOk |-> FALSE, fetched |-> 0, assets |-> {},
   pushed |-> <<>>, remote |-> [images |-> <<>>, totalTreasures |-> 0],
   success |-> FALSE, imageDeleted |-> FALSE, configUpdated |-> FALSE,
   treasureRemoved |-> <<>>]

\* ------------------------------------------------------ treasure dashboard
\* fetchTreasures: on mount and as the refresh that follows a deletion
FetchTreasures ==
  /\ page = "treasure-dashboard"
  /\ \E ok \in BOOLEAN :
       dashTreasures' = IF ok THEN remote.images ELSE dashTreasures
  /\ UNCHANGED << teamVars, authorVars, serverVars, page, dels >>

\* deleteTreasure of one listed record, up to its await; the rest of the
\* call keeps this render's list.
DeleteTreasure ==
  /\ page = "treasure-dashboard"
  /\ Len(dels) < MaxDels
  /\ \E k \in 1..Len(dashTreasures) :
       dels' = Append(dels, [stage |-> "sent",
                             imageName |-> dashTreasures[k].imageName,
                             fileName |-> dashTreasures[k].fileName,
                             treasures |-> dashTreasures,
                             reply |-> NoReply])
  /\ UNCHANGED << teamVars, authorVars, serverVars, page, dashTreasures >>

\* The delete request is handled, or throws on the way
DeleteTreasureRequest ==
  \E i \in 1..Len(dels) :
    /\ dels[i].stage = "sent"
    /\ \E reached \in BOOLEAN :
         IF reached
         THEN \E fetchOk \in BOOLEAN, deleteOk \in BOOLEAN, pushOk \in BOOLEAN :
                LET r == DeleteTreasureHandler(dels[i].imageName,
                                               dels[i].fileName,
                                               fetchOk, deleteOk, pushOk)
                IN /\ remote' = r.remote
                   /\ assets' = r.assets
                   /\ dels' = ReplaceAt(dels, i,
                                [dels[i] EXCEPT !.stage = "replied",
                                                !.reply = [r EXCEPT !.assets = {},
                                                                    !.remote = NoReply.remote]])
         ELSE /\ UNCHANGED << remote, assets >>
              /\ dels' = ReplaceAt(dels, i,
                           [dels[i] EXCEPT !.stage = "replied",
                                           !.reply = [DeleteThrew EXCEPT !.assets = {},
                                                                         !.remote = NoReply.remote]])
    /\ UNCHANGED << teamVars, authorVars, page, dashTreasures >>

\* deleteTreasure after the await
DeleteTreasureSettle ==
  \E i \in 1..Len(dels) :
    /\ page = "treasure-dashboard"
    /\ dels[i].stage = "replied"
    /\ dels' = RemoveAt(dels, i)
    /\ dashTreasures' =
         IF dels[i].reply.success
         THEN WithoutImageName(dels[i].treasures, dels[i].imageName)
         ELSE dashTreasures
    /\ UNCHANGED << teamVars, authorVars, serverVars, page >>


\* ------------------------------------------------------------- navigation
\* Both pages live in one browser tab: following a link to the other page
\* unmounts the page shown, whose state and pending continuations are lost,
\* and mounts the other one in its initial state.  A request still on its
\* way is let through before the page is left.
NoRequestOnItsWay ==
  /\ \A i \in 1..Len(vals) : vals[i].stage # "sent"
  /\ \A i \in 1..Len(pubs) : pubs[i].stage # "sent"
  /\ \A i \in 1..Len(dels) : dels[i].stage # "sent"

\* The state of HideTreasures when it mounts (its effect starts one load)
HideTreasuresMounted ==
  /\ currentStep' = "setup"
  /\ treasureCount' = 0
  /\ maxTreasures' = DefaultMaxTreasures
  /\ gpsPermission' = FALSE
  /\ treasures' = <<>>
  /\ cameraStream' = FALSE
  /\ capturedImage' = FALSE
  /\ imageName' = <<>>
  /\ isNamingImage' = FALSE
  /\ isProcessing' = FALSE
  /\ currentTreasure' = <<>>
  /\ clueText' = <<>>
  /\ hasPhysicalGame' = FALSE
  /\ physicalInstruction' = <<>>
  /\ secretCode' = <<>>
  /\ vals' = <<>>
  /\ pubs' = <<>>
  /\ lastClueIndex' = -1
  /\ currentLocation' = <<>>
  /\ streams' = 0
  /\ cropArea' = [x |-> InitialCropOffset, y |-> InitialCropOffset,
                  width |-> InitialCropSize, height |-> InitialCropSize]
  /\ imageDimensions' = [width |-> 0, height |-> 0]
  /\ naturalSize' = [width |-> 0, height |-> 0]
  /\ fixes' = <<>>
  /\ captureFix' = <<>>

GoToTreasureDashboard ==
  /\ page = "hide-treasures"
  /\ NoRequestOnItsWay
  /\ page' = "treasure-dashboard"
  /\ HideTreasuresMounted
  /\ loads' = 0
  /\ dashTreasures' = <<>>
  /\ dels' = <<>>
  /\ UNCHANGED << saves, serverVars, teamVars >>

GoToHideTreasures ==
  /\ page = "treasure-dashboard"
  /\ NoRequestOnItsWay
  /\ page' = "hide-treasures"
  /\ HideTreasuresMounted
  /\ loads' = 1
  /\ dashTreasures' = <<>>
  /\ dels' = <<>>
  /\ UNCHANGED << saves, serverVars, teamVars >>

\* ------------------------------------------------------------ specification
Next ==
  \/ LoadExistingTreasures
  \/ RequestGPSPermission
  \/ StartHidingTreasures
  \/ CaptureImage
  \/ SetImageName
  \/ SetIsNamingImage
  \/ RecaptureImage
  \/ CropImage
  \/ CropImageLoaded
  \/ ValidateAndUploadImageHandler
  \/ ValidateAndUploadImage
  \/ SetClueText
  \/ SetHasPhysicalGame
  \/ SaveClueAndContinue
  \/ UpdateWebConfig
  \/ SaveContinue
  \/ EndSession
  \/ StartNewSession
  \/ GoToTreasureDashboard
  \/ GoToHideTreasures
  \/ FetchTreasures
  \/ DeleteTreasure
  \/ DeleteTreasureRequest
  \/ DeleteTreasureSettle

Spec == Init /\ [][Next]_vars

\* The setup form and the camera alone, with the bypass and the camera test
NextSetup ==
  \/ LoadExistingTreasures
  \/ RequestGPSPermissionAnyOutcome
  \/ SkipGPS
  \/ SetMaxTreasures
  \/ TestCameraAccess
  \/ StartHidingTreasures
  \/ CaptureImage
  \/ RecaptureImage
  \/ EndSession
  \/ StartNewSession

SpecSetup == Init /\ [][NextSetup]_vars

\* One session of the author page with a quota typed in setup
NextSession ==
  \/ LoadExistingTreasures
  \/ RequestGPSPermission
  \/ SetMaxTreasures
  \/ StartHidingTreasures
  \/ CaptureImage
  \/ SetImageName
  \/ SetIsNamingImage
  \/ CropImage
  \/ CropImageLoaded
  \/ ValidateAndUploadImageHandler
  \/ ValidateAndUploadImage
  \/ SetClueText
  \/ SaveClueAndContinue
  \/ UpdateWebConfig
  \/ SaveContinue

SpecSession == Init /\ [][NextSession]_vars

\* The same session when every request that is on its way settles and the
\* continuation of a settled request runs
SpecSessionSettling ==
  /\ Init
  /\ [][NextSession]_vars
  /\ WF_vars(LoadExistingTreasures)
  /\ WF_vars(ValidateAndUploadImageHandler)
  /\ WF_vars(ValidateAndUploadImage)

\* One session of the author page with repeated clicks on Save & Continue
NextRepeatedSave ==
  \/ LoadExistingTreasures
  \/ RequestGPSPermission
  \/ StartHidingTreasures
  \/ CaptureImage
  \/ SetImageName
  \/ SetIsNamingImage
  \/ CropImage
  \/ CropImageLoaded
  \/ ValidateAndUploadImageHandler
  \/ ValidateAndUploadImage
  \/ SetClueText
  \/ SaveClueAndContinueTwice
  \/ UpdateWebConfig
  \/ SaveContinue

SpecRepeatedSave == Init /\ [][NextRepeatedSave]_vars

\* One session on a device that answers the position calls of captureImage
NextLocation ==
  \/ LoadExistingTreasures
  \/ RequestGPSPermission
  \/ StartHidingTreasures
  \/ CaptureImageWithFix
  \/ CapturePositionArrived
  \/ SetImageName
  \/ SetIsNamingImage
  \/ CropImage
  \/ CropImageLoaded
  \/ ValidateAndUploadImageHandler
  \/ ValidateAndUploadImage
  \/ SetClueText
  \/ SaveClueAndContinue
  \/ UpdateWebConfig
  \/ SaveContinue

SpecLocation == Init /\ [][NextLocation]_vars

\* The capture and crop steps with frames of several sizes and a crop
\* overlay that is dragged and resized
NextCrop ==
  \/ LoadExistingTreasures
  \/ RequestGPSPermission
  \/ StartHidingTreasures
  \/ CaptureImageAnyFrame
  \/ HandleImageLoad
  \/ MoveCropArea
  \/ ResizeCropArea

SpecCrop == Init /\ [][NextCrop]_vars

\* One session with labels of two words
NextLabels ==
  \/ LoadExistingTreasures
  \/ RequestGPSPermission
  \/ StartHidingTreasures
  \/ CaptureImage
  \/ SetImageNameSpaced
  \/ SetIsNamingImage
  \/ CropImage
  \/ CropImageLoaded
  \/ ValidateAndUploadImageHandler
  \/ ValidateAndUploadImage
  \/ SetClueText
  \/ SaveClueAndContinue
  \/ UpdateWebConfig
  \/ SaveContinue

SpecLabels == Init /\ [][NextLabels]_vars

\* ================================================================= properties
\* The step in which validateAndUploadImage resumes with the reply of crop i
ValidationSettles(i) ==
  /\ vals[i].stage = "replied"
  /\ page' = page
  /\ vals' = RemoveAt(vals, i)

\* The reply is a rejection: a score below the threshold, or a request error
Rejected(result) ==
  \/ result.status \in { "failed", "thrown" }
  \/ result.status = "ok" /\ result.score < MinValidationScore

\* C1: when validation settles with a score s, the workflow moves from
\* processing to clue-builder exactly when s >= minValidationScore (so a
\* score equal to the threshold moves on), and a lower score returns it to
\* capture.
C1_AdvancesIffScoreReachesThreshold ==
  [][\A i \in 1..Len(vals) :
       (ValidationSettles(i) /\ currentStep = "processing"
          /\ vals[i].result.status = "ok")
         => /\ (currentStep' = "clue-builder")
                 <=> (vals[i].result.score >= MinValidationScore)
            /\ (vals[i].result.score < MinValidationScore)
                 => (currentStep' = "capture")]_vars

\* C2: a save appends exactly one record to the list held before it, with
\* the label as clueName, the trimmed clue as clueText, the physical-game
\* flag as set, and a clueIndex equal to the number of records held before
\* the save; the list it sends to be published is the extended one (so from
\* an empty list: clueIndex 0 and totalTreasures 1).
C2_SaveAppendsRecordIndexedByCount ==
  [][(saves' # saves)
       => /\ Len(treasures') = Len(treasures) + 1
          /\ SubSeq(treasures', 1, Len(treasures)) = treasures
          /\ treasures'[Len(treasures')].clueName = currentTreasure[1].clueName
          /\ treasures'[Len(treasures')].clueText = Trim(clueText)
          /\ treasures'[Len(treasures')].hasPhysicalGame = hasPhysicalGame
          /\ pubs'[Len(pubs')].treasures = treasures'
          /\ WebConfigOf(treasures').totalTreasures = Len(treasures) + 1
          /\ treasures'[Len(treasures')].clueIndex = Len(treasures)]_vars

\* C3: when validation settles with a rejection (score below the threshold,
\* or a failed request), the workflow returns to capture, no record is
\* appended, the treasure count stays as it is, and nothing is published.
C3_RejectionLeavesSessionAsItWas ==
  [][\A i \in 1..Len(vals) :
       (ValidationSettles(i) /\ Rejected(vals[i].result))
         => /\ currentStep' = "capture"
            /\ treasures' = treasures
            /\ treasureCount' = treasureCount
            /\ currentTreasure' = currentTreasure
            /\ pubs' = pubs
            /\ saves' = saves
            /\ remote' = remote]_vars

\* C3 witness: a rejection has come back for a crop in a session that
\* already holds a published record.
C3_Witness ==
  /\ currentStep = "processing"
  /\ Len(treasures) > 0
  /\ remote.totalTreasures > 0
  /\ \E i \in 1..Len(vals) :
       /\ vals[i].stage = "replied"
       /\ vals[i].result.status = "ok"
       /\ vals[i].result.score < MinValidationScore

\* Every configuration document the state holds: the published one, those
\* built and stored by finished publish runs, those pushed by deletions
WrittenDocs ==
  { remote }
    \cup { pubs[i].run.doc : i \in { j \in 1..Len(pubs) : pubs[j].reached } }
    \cup UNION { { pubs[i].run.localFile[k] : k \in 1..Len(pubs[i].run.localFile) }
                   \cup { pubs[i].run.pushed[k] : k \in 1..Len(pubs[i].run.pushed) }
                   \cup { pubs[i].run.publicFile[k] :
                            k \in 1..Len(pubs[i].run.publicFile) } :
                 i \in 1..Len(pubs) }
    \cup UNION { { dels[i].reply.pushed[k] : k \in 1..Len(dels[i].reply.pushed) } :
                 i \in 1..Len(dels) }

\* C4: every configuration document written or pushed, by the publish
\* operation and by the republish of a deletion, has totalTreasures equal
\* to the length of its images list.
C4_TotalTreasuresIsImageCount ==
  \A d \in WrittenDocs : d.totalTreasures = Len(d.images)

\* C4 witness: a deletion has republished a configuration that still holds
\* a record, itself published by an earlier save.
C4_Witness ==
  /\ remote.totalTreasures >= 1
  /\ \E i \in 1..Len(dels) :
       /\ dels[i].stage = "replied"
       /\ dels[i].reply.configUpdated
       /\ dels[i].reply.pushed = << remote >>

\* C5: the published configuration changes only by one record appended per
\* save or one record removed per deletion: the list a save publishes is the
\* list published before it plus the new record, whatever reloads, End
\* Session or Start New Session came in between.
C5_PublishedListOnlyGrowsBySaves ==
  [][/\ (remote' # remote /\ pubs' # pubs)
          => /\ Len(remote'.images) = Len(remote.images) + 1
             /\ SubSeq(remote'.images, 1, Len(remote.images)) = remote.images
     /\ (remote' # remote /\ dels' # dels)
          => Len(remote'.images) = Len(remote.images) - 1]_vars

\* C6: no two records of the published configuration share an imageName.
C6_PublishedImageNamesDiffer ==
  \A i \in 1..Len(remote.images), j \in 1..Len(remote.images) :
    (i # j) => (remote.images[i].imageName # remote.images[j].imageName)

\* C7: within one session, each saved record gets a clueIndex greater than
\* that of the record saved before it, so no clueIndex is assigned twice.
C7_ClueIndexGrowsWithinSession ==
  [][(saves' # saves)
       => (treasures'[Len(treasures')].clueIndex > lastClueIndex)]_vars

\* The step in which the delete request of entry i is handled
DeleteHandled(i) ==
  /\ Len(dels') = Len(dels)
  /\ dels[i].stage = "sent"
  /\ dels'[i].stage = "replied"
  /\ dels'[i].reply.status = "ok"

\* C8: when the fetch succeeds on a configuration of N records, deleting one
\* of them by imageName republishes exactly N-1 records with totalTreasures
\* N-1, none with the deleted imageName, the others unchanged and in order.
C8_DeleteRepublishesAllButOne ==
  [][\A i \in 1..Len(dels) :
       (/\ DeleteHandled(i)
        /\ dels'[i].reply.fetchOk
        /\ \E k \in 1..Len(remote.images) :
             remote.images[k].imageName = dels[i].imageName)
         => /\ dels'[i].reply.pushed # <<>>
            /\ LET doc == dels'[i].reply.pushed[1]
               IN /\ Len(doc.images) = Len(remote.images) - 1
                  /\ doc.totalTreasures = Len(remote.images) - 1
                  /\ doc.images = WithoutImageName(remote.images, dels[i].imageName)
                  /\ dels'[i].reply.configUpdated => (remote' = doc)]_vars

C10_PublishAttemptsAllThreeWrites ==
  \A i \in 1..Len(pubs) :
    (pubs[i].stage = "done" /\ pubs[i].reached)
      => /\ Len(pubs[i].run.attempts) = 3
         /\ pubs[i].run.attempts[1].target = "local"
         /\ pubs[i].run.attempts[2].target = "remote"
         /\ pubs[i].run.attempts[3].target = "public"
         /\ pubs[i].run.attempts[1].ok => (pubs[i].run.localFile = << pubs[i].run.doc >>)
         /\ pubs[i].run.attempts[2].ok => (pubs[i].run.pushed = << pubs[i].run.doc >>)
         /\ pubs[i].run.attempts[3].ok => (pubs[i].run.publicFile = << pubs[i].run.doc >>)
         /\ pubs[i].run.response # <<>>

\* C10 witness: a run whose remote push failed between a local write and a
\* public copy that both succeeded, and that replied.
C10_Witness ==
  \E i \in 1..Len(pubs) :
    /\ pubs[i].stage = "done"
    /\ pubs[i].reached
    /\ Len(pubs[i].run.attempts) = 3
    /\ pubs[i].run.attempts[1].ok
    /\ ~pubs[i].run.attempts[2].ok
    /\ pubs[i].run.attempts[3].ok
    /\ pubs[i].run.localFile = << pubs[i].run.doc >>
    /\ pubs[i].run.response # <<>>

\* C11: whenever a publish run reports success, the document built from the
\* submitted records is in the local configuration file; a run whose local
\* write failed does not report success.
C11_SuccessMeansLocalFileWritten ==
  \A i \in 1..Len(pubs) :
    (/\ pubs[i].stage = "done"
     /\ pubs[i].reached
     /\ pubs[i].run.response # <<>>
     /\ pubs[i].run.response[1].success)
      => (pubs[i].run.localFile = << pubs[i].run.doc >>)

\* What the caller of delete-treasure receives
DeleteResponse(reply) ==
  [success |-> reply.success, imageDeleted |-> reply.imageDeleted,
   configUpdated |-> reply.configUpdated]

\* C12: every failed remote call of a publish (the push) or of a deletion
\* (the fetch, the image delete, the push) shows in the result returned to
\* the caller, which then differs from the result of a run in which every
\* call succeeded.
C12_RemoteFailureShowsInResult ==
  /\ \A i \in 1..Len(pubs) :
       (pubs[i].stage = "done" /\ pubs[i].reached /\ ~pubs[i].run.attempts[2].ok)
         => pubs[i].run.response
              # UpdateWebConfigHandler(pubs[i].run.doc.images, TRUE, TRUE, TRUE).response
  /\ \A i \in 1..Len(dels) :
       (/\ dels[i].stage = "replied"
        /\ dels[i].reply.status = "ok"
        /\ \/ ~dels[i].reply.fetchOk
           \/ ~dels[i].reply.imageDeleted
           \/ dels[i].reply.pushed # <<>> /\ ~dels[i].reply.configUpdated)
         => DeleteResponse(dels[i].reply)
              # [success |-> TRUE, imageDeleted |-> TRUE, configUpdated |-> TRUE]

C14_SaveNeedsClueAndGameFields ==
  [][(saves' # saves)
       => /\ Trim(clueText) # <<>>
          /\ hasPhysicalGame
               => (Trim(physicalInstruction) # <<>> /\ Trim(secretCode) # <<>>)]_vars

\* The step in which the validation request of crop i is answered
ValidationHandled(i) ==
  /\ Len(vals') = Len(vals)
  /\ vals[i].stage = "sent"
  /\ vals'[i].stage = "replied"
  /\ vals'[i].result.status = "ok"

\* C15: when the validation tool yields no usable score (it errors, or its
\* output holds no score), the reply is a failure, the image is not
\* uploaded, and the workflow does not move on to the clue builder.
C15_NoScoreNeverPasses ==
  [][\A i \in 1..Len(vals) :
       /\ (ValidationHandled(i) /\ vals'[i].result.tool # "output")
            => /\ ~vals'[i].result.success
               /\ ~vals'[i].result.uploadTried
               /\ assets' = assets
       /\ (/\ ValidationSettles(i)
           /\ vals[i].result.status = "ok"
           /\ vals[i].result.tool # "output")
            => (currentStep' # "clue-builder")]_vars

\* C16: while a request of the current state is outstanding (the image load
\* of a crop, its validation request, the publish request of a save), no
\* further Save, Crop, End Session or Retake Photo is accepted, so that one
\* authoring cycle never appends or publishes its record twice.
C16_NoActionWhileRequestOutstanding ==
  [][((vals # <<>> \/ pubs # <<>>) /\ page' = page)
       => /\ saves' = saves
          /\ Len(vals') <= Len(vals)
          /\ ~(currentStep # "complete" /\ currentStep' = "complete" /\ pubs' = pubs)
          /\ ~(currentStep = "crop" /\ currentStep' = "capture" /\ vals' = vals)]_vars

\* C17: at most one camera stream runs at any moment, and a running stream
\* is the one the page holds in cameraStream for release.
C17_OnlyTheHeldStreamRuns ==
  streams = (IF cameraStream THEN 1 ELSE 0)

\* The step in which End Session is clicked
SessionEnded ==
  /\ page' = page
  /\ currentStep \in { "capture", "clue-builder" }
  /\ currentStep' = "complete"
  /\ pubs' = pubs

\* C18: End Session releases the camera stream, discards the in-progress
\* record (captured image, label, partial treasure, clue fields) and leaves
\* the saved records and the published configuration as they are.
C18_EndSessionDiscardsInProgress ==
  [][SessionEnded
       => /\ ~cameraStream'
          /\ streams' = 0
          /\ ~capturedImage'
          /\ imageName' = <<>>
          /\ currentTreasure' = <<>>
          /\ clueText' = <<>>
          /\ ~hasPhysicalGame'
          /\ physicalInstruction' = <<>>
          /\ secretCode' = <<>>
          /\ treasures' = treasures
          /\ remote' = remote]_vars

\* C19: the workflow leaves setup for capture only with a position fix
\* obtained and a camera stream acquired; the camera configurations are
\* tried in their fixed order up to the first that works, and with none
\* working the workflow stays in setup.
C19_LeavesSetupWithGpsAndCamera ==
  [][/\ (currentStep = "setup" /\ currentStep' = "capture")
          => /\ gpsPermission
             /\ currentLocation = <<"gps">>
             /\ cameraStream'
             /\ streams' >= 1
     /\ \A works \in [CameraConfigs -> BOOLEAN] :
          LET tried == ConfigsTried(works)
          IN /\ \A k \in 1..Len(tried) : tried[k] = k
             /\ \A k \in 1..(Len(tried) - 1) : ~works[tried[k]]
             /\ StreamAcquired(works) <=> (\E c \in CameraConfigs : works[c])
             /\ ~StreamAcquired(works) => (Len(tried) = NumCameraConfigs)]_vars

\* C20: (one session, so saves counts its saved records) the continuation
\* of a save goes to complete whenever the saved records have reached
\* maxTreasures and offers another capture only below it; with the quota
\* reached, nothing more is captured or saved.
C20_QuotaEndsSession ==
  [][/\ (page' = page /\ Len(pubs') < Len(pubs))
          => /\ (saves >= maxTreasures) => (currentStep' = "complete")
             /\ (currentStep' = "capture") => (saves < maxTreasures)
     /\ (saves' # saves) => (saves < maxTreasures)
     /\ (currentStep = "capture" /\ currentStep' = "crop")
          => (saves < maxTreasures)]_vars

\* C26: the coordinates stored in a saved record are those the position
\* call of that record's capture was answered with, whenever the answer
\* arrives.
C26_RecordHoldsCaptureFix ==
  [][(saves' # saves /\ captureFix # <<>>)
       => /\ treasures'[Len(treasures')].latitude = captureFix[1]
          /\ treasures'[Len(treasures')].longitude = captureFix[1]]_vars

\* A rectangle of positive extent inside an image of the given size
InsideImage(area, size) ==
  /\ area.x >= 0
  /\ area.y >= 0
  /\ area.width >= 1
  /\ area.height >= 1
  /\ area.x + area.width <= size.width
  /\ area.y + area.height <= size.height

\* C27: after a capture and any moves and resizes, the rectangle that a
\* crop cuts has positive width and height and lies inside the captured
\* image, so the output is at least 1x1 and at most the image's size.
C27_CropRegionInsideImage ==
  (currentStep = "crop" /\ capturedImage)
    => InsideImage(ActualCrop(cropArea, imageDimensions, naturalSize), naturalSize)

\* C28: the image is uploaded only with a score of at least
\* minValidationScore, and when that upload fails the handler still reports
\* success with the score and the workflow still moves on to the clue
\* builder.
C28_FailedUploadStillAdvances ==
  [][\A i \in 1..Len(vals) :
       (ValidationSettles(i) /\ vals[i].result.status = "ok")
         => /\ vals[i].result.uploadTried
                 => (vals[i].result.score >= MinValidationScore)
            /\ (vals[i].result.uploadTried /\ ~vals[i].result.uploaded)
                 => /\ vals[i].result.success
                    /\ currentStep' = "clue-builder"]_vars

\* C29: the fileName of the record made from an uploaded image is the name
\* under which the image was uploaded, also for labels with spaces.
C29_FileNameIsUploadedName ==
  [][\A i \in 1..Len(vals) :
       (ValidationSettles(i) /\ vals[i].result.uploaded
          /\ currentStep' = "clue-builder")
         => /\ currentTreasure'[1].fileName = vals[i].result.file
            /\ currentTreasure'[1].fileName \in assets]_vars

\* C30: when its validation request settles, every stay in the processing
\* step ends in the clue builder or back at capture with isProcessing
\* cleared.
C30_ProcessingEnds ==
  (currentStep = "processing")
    ~> (currentStep \in { "clue-builder", "capture" } /\ ~isProcessing)

\* C30 witness: a rejected validation has brought the workflow back to
\* capture, the frame of the rejected crop still held.
C30_Witness ==
  /\ currentStep = "capture"
  /\ capturedImage
  /\ Trim(imageName) # <<>>
  /\ ~isProcessing
  /\ vals = <<>>

\* ---------------------------------------------------------------------
\* The team store (src/lib/firestore.ts) and the volunteer dashboard's
\* use of it
\* ---------------------------------------------------------------------

MaxListeners == 2

MaxUps == 1

otherVars == << authorVars, serverVars, browserVars >>

ledgerVars == << physicalScoreTable, timers, entrySaves, now >>

\* The callback subscribeToTeams registers with onValue on its n-th call
SnapshotCallback(n) == << "onSnapshot", n >>

\* What onValue returns for that registration
UnsubscribeOf(n) == << "unsubscribe", n >>

\* off(rootRef, 'value', cb) detaches the registrations whose callback is cb
Off(regs, cb) == { r \in regs : r # cb }

\* The hunt (or the registration page) sets the node of a key
StoreSet(nodesOf) ==
  \E u \in UidSet :
    \E node \in nodesOf[u] :
      /\ store' = (u :> node) @@ store
      /\ store' # store
      /\ dirty' = listeners
      /\ UNCHANGED << listeners, subscription, teams, fetched, ups, ledgerVars,
                      otherVars >>

\* ... or removes it
StoreRemove ==
  \E u \in DOMAIN store :
    /\ store' = [v \in DOMAIN store \ { u } |-> store[v]]
    /\ dirty' = listeners
    /\ UNCHANGED << listeners, subscription, teams, fetched, ups, ledgerVars,
                    otherVars >>

\* The tree the roster is read from: every shape of team node and the
\* other nodes under one key, plain teams under the other
TeamsWrites ==
  StoreSet(("u1" :> ({ node \in TeamNodes : node.teamNumber = 2 } \cup OtherNodes))
             @@ ("u2" :> { Roster(1), Roster(2) }))

\* The tree physical scores are written to: one key, a team or another node
ScoresWrites ==
  StoreSet(("u1" :> ({ ("session" :> LowerSession) @@ Roster(1) } \cup OtherNodes))
             @@ ("u2" :> {}))

\* subscribeToTeams(callback): onValue registers the snapshot callback and
\* owes it a first event
SubscribeToTeams ==
  /\ subscription.status # "active"
  /\ subscription.n < MaxListeners
  /\ LET n == subscription.n + 1
     IN /\ listeners' = listeners \cup { SnapshotCallback(n) }
        /\ dirty' = dirty \cup { SnapshotCallback(n) }
        /\ subscription' = [status |-> "active", n |-> n]
  /\ UNCHANGED << store, teams, fetched, ups, ledgerVars, otherVars >>

\* The function subscribeToTeams returned:
\* off(rootRef, 'value', unsubscribe) with what onValue returned
Unsubscribe ==
  /\ subscription.status = "active"
  /\ listeners' = Off(listeners, UnsubscribeOf(subscription.n))
  /\ dirty' = dirty \cap listeners'
  /\ subscription' = [subscription EXCEPT !.status = "ended"]
  /\ UNCHANGED << store, teams, fetched, ups, ledgerVars, otherVars >>

\* The loadScoreEntries effect: the table of the teams that have entries
RECURSIVE ScoreTableOf(_)
ScoreTableOf(roster) ==
  IF roster = <<>> THEN EmptyTree
  ELSE LET team == roster[Len(roster)]
           rest == ScoreTableOf(SubSeq(roster, 1, Len(roster) - 1))
       IN IF Has(team, "physicalScoreEntries") /\ Len(team.physicalScoreEntries) > 0
          THEN (team.uid :> team.physicalScoreEntries) @@ rest
          ELSE rest

\* A value event reaches a registered snapshot callback, which hands the
\* roster to the callback of subscribeToTeams; in the mounted dashboard
\* setTeams reruns the effect that reloads the score table
OnSnapshot ==
  \E cb \in dirty :
    /\ dirty' = dirty \ { cb }
    /\ teams' = TeamsOf(store)
    /\ physicalScoreTable' =
         IF subscription.status = "active" /\ Len(teams') > 0
         THEN ScoreTableOf(teams')
         ELSE physicalScoreTable
    /\ UNCHANGED << store, listeners, subscription, fetched, ups, timers,
                    entrySaves, now, otherVars >>

\* The error callback of onValue: the listener is cancelled, callback([])
OnListenerError ==
  \E cb \in listeners :
    /\ listeners' = listeners \ { cb }
    /\ dirty' = dirty \ { cb }
    /\ teams' = <<>>
    /\ UNCHANGED << store, subscription, fetched, ups, ledgerVars, otherVars >>

\* getAllTeams(): the roster of the tree read, [] when anything throws
GetAllTeams ==
  \E ok \in BOOLEAN :
    /\ fetched' = IF ok THEN TeamsOf(store) ELSE <<>>
    /\ fetched' # fetched
    /\ UNCHANGED << store, listeners, subscription, dirty, teams, ups,
                    ledgerVars, otherVars >>

ScoreInputs == { 0, 7 }

\* The optional comment: not given, empty, or a text
CommentInputs ==
  { [given |-> FALSE, text |-> <<>>], [given |-> TRUE, text |-> <<>>],
    [given |-> TRUE, text |-> << "c" >>] }

TeamNotFound == "Team not found with the provided UID"

\* updatePhysicalScore(uid, physicalScore, comment) is called
UpdatePhysicalScoreCall ==
  /\ Len(ups) < MaxUps
  /\ \E uid \in UidSet, physicalScore \in ScoreInputs, comment \in CommentInputs :
       ups' = Append(ups, [uid |-> uid, physicalScore |-> physicalScore,
                           comment |-> comment, stage |-> "called",
                           outcome |-> "pending"])
  /\ UNCHANGED << store, listeners, subscription, dirty, teams, fetched,
                  ledgerVars, otherVars >>

\* ensureAuth() and get(teamRef) settle
UpdatePhysicalScoreRead ==
  \E i \in 1..Len(ups) :
    /\ ups[i].stage = "called"
    /\ \E answer \in { "ok", "Authentication required", "read failed" } :
         ups' = [ups EXCEPT ![i] =
                   IF answer # "ok"
                   THEN [@ EXCEPT !.stage = "settled", !.outcome = answer]
                   ELSE IF ups[i].uid \notin DOMAIN store
                   THEN [@ EXCEPT !.stage = "settled", !.outcome = TeamNotFound]
                   ELSE [@ EXCEPT !.stage = "read"]]
    /\ UNCHANGED << store, listeners, subscription, dirty, teams, fetched,
                    ledgerVars, otherVars >>

\* updateData of a call
UpdateData(call) ==
  IF call.comment.given
  THEN [physicalScore |-> call.physicalScore, physicalScoreComment |-> call.comment.text]
  ELSE [physicalScore |-> call.physicalScore]

\* update(teamRef, updateData): the named children are set, the others kept
UpdateNode(tree, uid, data) ==
  LET old == IF uid \in DOMAIN tree /\ IsObject(tree[uid])
             THEN tree[uid]
             ELSE [f \in {} |-> 0]
  IN (uid :> (data @@ old)) @@ tree

\* update(teamRef, updateData) settles
UpdatePhysicalScoreWrite ==
  \E i \in 1..Len(ups) :
    /\ ups[i].stage = "read"
    /\ \E ok \in BOOLEAN :
         IF ok
         THEN /\ store' = UpdateNode(store, ups[i].uid, UpdateData(ups[i]))
              /\ dirty' = IF store' # store THEN listeners ELSE dirty
              /\ ups' = [ups EXCEPT ![i] = [@ EXCEPT !.stage = "settled",
                                                      !.outcome = "true"]]
         ELSE /\ ups' = [ups EXCEPT ![i] = [@ EXCEPT !.stage = "settled",
                                                      !.outcome = "write failed"]]
              /\ UNCHANGED << store, dirty >>
    /\ UNCHANGED << listeners, subscription, teams, fetched, ledgerVars,
                    otherVars >>

\* The dashboard listening to the hunt's teams
NextTeams ==
  \/ TeamsWrites
  \/ StoreRemove
  \/ SubscribeToTeams
  \/ Unsubscribe
  \/ OnSnapshot
  \/ OnListenerError
  \/ GetAllTeams

SpecTeams == Init /\ [][NextTeams]_vars

\* Physical scores written while the hunt changes the tree
NextScores ==
  \/ ScoresWrites
  \/ StoreRemove
  \/ SubscribeToTeams
  \/ OnSnapshot
  \/ UpdatePhysicalScoreCall
  \/ UpdatePhysicalScoreRead
  \/ UpdatePhysicalScoreWrite

SpecScores == Init /\ [][NextScores]_vars

\* ---------------------------------------------------------------------
\* The physical-score ledger of the volunteer dashboard
\* (src/unnamed/part_002, second version of VolunteerDashboard)
\* ---------------------------------------------------------------------

MaxRowIds == 1

MaxEntrySaves == 1

MaxLedger == 2

ScoreEdits == { 5, 10 }

VolunteerEdits == { << " " >>, << "V" >> }

BenchmarkEdits == { << "B" >> }

\* physicalScoreTable[teamUid] || []
RowsOf(table, uid) == IF uid \in DOMAIN table THEN table[uid] ELSE <<>>

\* rows.filter(row => row.id !== rowId)
RECURSIVE WithoutRow(_, _)
WithoutRow(rows, rowId) ==
  IF rows = <<>> THEN <<>>
  ELSE (IF rows[1].id # rowId THEN << rows[1] >> ELSE <<>>)
         \o WithoutRow(Tail(rows), rowId)

\* The hunt's registration creates a team node
TeamRegisters ==
  \E u \in { "u1" } \ DOMAIN store :
    /\ store' = (u :> Roster(1)) @@ store
    /\ dirty' = listeners
    /\ UNCHANGED << listeners, subscription, teams, fetched, ups, ledgerVars,
                    otherVars >>

\* The hunt awards a game score: one field of a team node changes
GameScores ==
  \E u \in DOMAIN store, score \in { 0, 3 } :
    /\ IsTeamNode(store[u])
    /\ store' = UpdateNode(store, u, [score |-> score])
    /\ store' # store
    /\ dirty' = listeners
    /\ UNCHANGED << listeners, subscription, teams, fetched, ups, ledgerVars,
                    otherVars >>

\* addScoreRow(teamUid): the id of the new row is the time of the click
\* (the timestamp of an entry is left out of the model)
AddScoreRow ==
  \E i \in 1..Len(teams) :
    LET teamUid == teams[i].uid
    IN /\ now < MaxRowIds
       /\ now' = now + 1
       /\ physicalScoreTable' =
            (teamUid :> Append(RowsOf(physicalScoreTable, teamUid),
                               [id |-> now', score |-> 0, volunteer |-> <<>>,
                                benchmark |-> <<>>, isAdded |-> FALSE]))
              @@ physicalScoreTable
       /\ UNCHANGED << store, listeners, subscription, dirty, teams, fetched,
                       ups, timers, entrySaves, otherVars >>

\* updateScoreRow(teamUid, rowId, field, value) from the inputs of a row,
\* which are disabled once the row is added: the table is updated and the
\* debounce timer of the row is re-armed with this snapshot of the entries
UpdateScoreRow ==
  \E teamUid \in DOMAIN physicalScoreTable :
    \E k \in 1..Len(physicalScoreTable[teamUid]) :
      LET rows == physicalScoreTable[teamUid]
          edits == { [rows[k] EXCEPT !.score = v] : v \in ScoreEdits }
                     \cup { [rows[k] EXCEPT !.volunteer = v] : v \in VolunteerEdits }
                     \cup { [rows[k] EXCEPT !.benchmark = v] : v \in BenchmarkEdits }
      IN /\ ~rows[k].isAdded
         /\ \E row \in edits :
              LET updatedEntries == [rows EXCEPT ![k] = row]
              IN /\ row # rows[k]
                 /\ physicalScoreTable' =
                      (teamUid :> updatedEntries) @@ physicalScoreTable
                 /\ timers' = (<< teamUid, row.id >> :> updatedEntries) @@ timers
         /\ UNCHANGED << store, listeners, subscription, dirty, teams, fetched,
                         ups, entrySaves, now, otherVars >>

\* The debounce timer of a row fires: savePhysicalScoreEntries is called
\* with the entries of the edit that armed it
ScoreTimerFires ==
  \E key \in DOMAIN timers :
    /\ Len(entrySaves) < MaxEntrySaves
    /\ entrySaves' = Append(entrySaves, [uid |-> key[1], entries |-> timers[key]])
    /\ timers' = [other \in DOMAIN timers \ { key } |-> timers[other]]
    /\ UNCHANGED << store, listeners, subscription, dirty, teams, fetched, ups,
                    physicalScoreTable, now, otherVars >>

\* addScoreEntry(teamUid, rowId): the Add button of a row not yet added
AddScoreEntry ==
  \E teamUid \in DOMAIN physicalScoreTable :
    \E k \in 1..Len(physicalScoreTable[teamUid]) :
      LET rows == physicalScoreTable[teamUid]
          updatedEntries == [rows EXCEPT ![k] = [@ EXCEPT !.isAdded = TRUE]]
      IN /\ ~rows[k].isAdded
         /\ Trim(rows[k].volunteer) # <<>>
         /\ Trim(rows[k].benchmark) # <<>>
         /\ Len(entrySaves) < MaxEntrySaves
         /\ physicalScoreTable' = (teamUid :> updatedEntries) @@ physicalScoreTable
         /\ entrySaves' = Append(entrySaves, [uid |-> teamUid, entries |-> updatedEntries])
         /\ UNCHANGED << store, listeners, subscription, dirty, teams, fetched,
                         ups, timers, now, otherVars >>

\* removeScoreRow(teamUid, rowId)
RemoveScoreRow ==
  \E teamUid \in DOMAIN physicalScoreTable :
    \E k \in 1..Len(physicalScoreTable[teamUid]) :
      LET rows == physicalScoreTable[teamUid]
          updatedEntries == WithoutRow(rows, rows[k].id)
      IN /\ Len(entrySaves) < MaxEntrySaves
         /\ physicalScoreTable' = (teamUid :> updatedEntries) @@ physicalScoreTable
         /\ entrySaves' = Append(entrySaves, [uid |-> teamUid, entries |-> updatedEntries])
         /\ UNCHANGED << store, listeners, subscription, dirty, teams, fetched,
                         ups, timers, now, otherVars >>

\* savePhysicalScoreEntries(teamUid, entries) settles: the ledger of the
\* team node is replaced by the entries, or the request fails
SavePhysicalScoreEntries ==
  /\ entrySaves # <<>>
  /\ \E ok \in BOOLEAN :
       IF ok
       THEN /\ store' = UpdateNode(store, entrySaves[1].uid,
                                   [physicalScoreEntries |-> entrySaves[1].entries])
            /\ dirty' = IF store' # store THEN listeners ELSE dirty
       ELSE UNCHANGED << store, dirty >>
  /\ entrySaves' = Tail(entrySaves)
  /\ UNCHANGED << listeners, subscription, teams, fetched, ups,
                  physicalScoreTable, timers, now, otherVars >>

\* A net score that counts every row
NetOfAllRows(rows) ==
  LET RECURSIVE Sum(_)
      Sum(k) == IF k = 0 THEN 0 ELSE Sum(k - 1) + rows[k].score
  IN Sum(Len(rows))

\* rows.reduce((sum, row) => sum + (row.isAdded ? (row.score || 0) : 0), 0)
NetOfRows(rows) ==
  LET RECURSIVE Sum(_)
      Sum(k) == IF k = 0 THEN 0
                ELSE Sum(k - 1) + (IF rows[k].isAdded THEN rows[k].score ELSE 0)
  IN Sum(Len(rows))

\* getNetPhysicalScore(teamUid)
GetNetPhysicalScore(teamUid) == NetOfRows(RowsOf(physicalScoreTable, teamUid))

\* One volunteer keeping the ledger of one team
NextLedger ==
  \/ TeamRegisters
  \/ GameScores
  \/ SubscribeToTeams
  \/ OnSnapshot
  \/ AddScoreRow
  \/ UpdateScoreRow
  \/ ScoreTimerFires
  \/ AddScoreEntry
  \/ RemoveScoreRow
  \/ SavePhysicalScoreEntries

SpecLedger == Init /\ [][NextLedger]_vars

\* The ledgers of at most n entries, as another volunteer's dashboard
\* saved them
RECURSIVE LedgersOf(_)
LedgersOf(n) ==
  IF n = 0 THEN { <<>> }
  ELSE LET shorter == LedgersOf(n - 1)
       IN shorter \cup
            { Append(ledger, [id |-> n, score |-> score, volunteer |-> << "V" >>,
                              benchmark |-> << "B" >>, isAdded |-> isAdded]) :
                ledger \in { l \in shorter : Len(l) = n - 1 },
                score \in ScoreEdits, isAdded \in BOOLEAN }

\* The team node gets a ledger that was saved from elsewhere
LedgerWrites ==
  StoreSet(("u1" :> { ("physicalScoreEntries" :> ledger) @@ Roster(1) :
                        ledger \in LedgersOf(MaxLedger) \ { <<>> } })
             @@ ("u2" :> {}))

\* A dashboard showing ledgers of several entries that were saved elsewhere
NextNetScore ==
  \/ LedgerWrites
  \/ SubscribeToTeams
  \/ OnSnapshot
  \/ AddScoreEntry
  \/ SavePhysicalScoreEntries

SpecNetScore == Init /\ [][NextNetScore]_vars

\* ---------------------------------------------------------------------
\* Claims about the team store
\* ---------------------------------------------------------------------

SessionFieldsOn(raw) ==
  { "currentClueNumber", "cluesCompleted", "gameStarted", "started", "status" }
    \cap DOMAIN raw

NestedObject(raw, name) == name \in DOMAIN raw /\ "primitive" \notin DOMAIN raw[name]

\* The session a delivered team must carry, given its node
SessionResolvedInOrder(team, raw) ==
  /\ "session" \in DOMAIN team
  /\ NestedObject(raw, "session") => team.session = raw["session"]
  /\ (~NestedObject(raw, "session") /\ NestedObject(raw, "Session"))
       => team.session = raw["Session"]
  /\ (~NestedObject(raw, "session") /\ ~NestedObject(raw, "Session")
        /\ SessionFieldsOn(raw) # {})
       => /\ DOMAIN team.session = SessionFieldsOn(raw)
          /\ \A f \in SessionFieldsOn(raw) : team.session[f] = raw[f]
  /\ (~NestedObject(raw, "session") /\ ~NestedObject(raw, "Session")
        /\ SessionFieldsOn(raw) = {})
       => team.session = [cluesCompleted |-> 0, currentClueNumber |-> 0,
                          started |-> FALSE, status |-> "not_started"]

\* C21: every team of a roster delivered by subscribeToTeams or returned
\* by getAllTeams carries a session, resolved from its node in the order
\* nested `session`, nested `Session`, session fields on the node, default;
\* a node without any of them gets exactly the default session.
C21_SessionAlwaysResolved ==
  [][/\ (teams' # teams)
          => \A i \in 1..Len(teams') :
               SessionResolvedInOrder(teams'[i], store[teams'[i].uid])
     /\ (fetched' # fetched)
          => \A i \in 1..Len(fetched') :
               SessionResolvedInOrder(fetched'[i], store[fetched'[i].uid])]_vars

\* C21 witness: a delivered roster holds a team with the default session
\* and a fetched one a team whose session came from the nested `Session`
C21_Witness ==
  /\ \E i \in 1..Len(teams) : teams[i].session = DefaultSession
  /\ \E i \in 1..Len(fetched) :
       /\ fetched[i].uid \in DOMAIN store
       /\ Has(store[fetched[i].uid], "Session")
       /\ Has(store[fetched[i].uid], "session")
       /\ fetched[i].session = UpperSession

\* A step in which a snapshot callback handed a roster to the callback
RosterDelivered ==
  /\ dirty' # dirty
  /\ dirty' \subseteq dirty
  /\ listeners' = listeners
  /\ subscription' = subscription

\* The roster of a tree: its valid teams, each once, by ascending number
IsFullRoster(roster, tree) ==
  /\ { roster[i].uid : i \in 1..Len(roster) }
       = { u \in DOMAIN tree : IsObject(tree[u]) /\ Has(tree[u], "teamName") }
  /\ \A i, j \in 1..Len(roster) :
       (i < j) => /\ roster[i].uid # roster[j].uid
                  /\ roster[i].teamNumber <= roster[j].teamNumber
  /\ \A i \in 1..Len(roster) :
       \A f \in DOMAIN tree[roster[i].uid] \ { "session" } :
         roster[i][f] = tree[roster[i].uid][f]

\* C22: every roster subscribeToTeams delivers is the full roster of the
\* latest snapshot (the valid teams, each once, by ascending teamNumber),
\* and no roster is delivered once the returned function was called.
C22_FullRosterUntilUnsubscribed ==
  [][RosterDelivered
       => /\ IsFullRoster(teams', store)
          /\ subscription.status # "ended"]_vars

\* The node under a uid is a team
TeamExists(tree, uid) ==
  uid \in DOMAIN tree /\ IsObject(tree[uid]) /\ Has(tree[uid], "teamName")

FieldsOf(tree, uid) ==
  IF uid \in DOMAIN tree /\ IsObject(tree[uid]) THEN DOMAIN tree[uid] ELSE {}

\* C23: a call of updatePhysicalScore whose uid names no team fails with
\* team-not-found and writes nothing; on a team it writes physicalScore
\* (and physicalScoreComment when a comment is given) and nothing else.
C23_PartialUpdateOrTeamNotFound ==
  [][\A i \in 1..Len(ups) :
       /\ (Len(ups') = Len(ups) /\ ups[i].stage = "called"
             /\ ups'[i].outcome \notin { "Authentication required", "read failed" }
             /\ ~TeamExists(store, ups[i].uid))
            => ups'[i].outcome = TeamNotFound
       /\ (Len(ups') = Len(ups) /\ ups[i].stage = "read" /\ store' # store)
            => /\ TeamExists(store, ups[i].uid)
               /\ \A u \in DOMAIN store \ { ups[i].uid } :
                    u \in DOMAIN store' /\ store'[u] = store[u]
               /\ \A f \in FieldsOf(store, ups[i].uid)
                             \ { "physicalScore", "physicalScoreComment" } :
                    /\ f \in DOMAIN store'[ups[i].uid]
                    /\ store'[ups[i].uid][f] = store[ups[i].uid][f]
               /\ ups[i].comment.given
                    \/ (\A f \in { "physicalScoreComment" } :
                          (f \in FieldsOf(store', ups[i].uid))
                             <=> (f \in FieldsOf(store, ups[i].uid)))]_vars

\* ---------------------------------------------------------------------
\* Claims about the physical-score ledger
\* ---------------------------------------------------------------------

\* The sum of the scores of the rows at the given positions
RECURSIVE ScoreSum(_, _)
ScoreSum(rows, positions) ==
  IF positions = {} THEN 0
  ELSE LET k == CHOOSE p \in positions : TRUE
       IN rows[k].score + ScoreSum(rows, positions \ { k })

\* C24: for every team the net physical score is the sum of the scores of
\* exactly the entries with isAdded = true; the other entries add nothing.
C24_NetScoreCountsFinalizedOnly ==
  \A uid \in UidSet :
    LET rows == RowsOf(physicalScoreTable, uid)
    IN GetNetPhysicalScore(uid)
         = ScoreSum(rows, { k \in 1..Len(rows) : rows[k].isAdded })

\* C24 witness: the ledger [{10, added}, {5, not added}] with net score 10
C24_Witness ==
  /\ "u1" \in DOMAIN physicalScoreTable
  /\ Len(physicalScoreTable["u1"]) = 2
  /\ physicalScoreTable["u1"][1].score = 10 /\ physicalScoreTable["u1"][1].isAdded
  /\ physicalScoreTable["u1"][2].score = 5 /\ ~physicalScoreTable["u1"][2].isAdded
  /\ GetNetPhysicalScore("u1") = 10

\* The step is removeScoreRow of that row
ExplicitRemoval(uid, rowId) ==
  LET remaining == WithoutRow(physicalScoreTable[uid], rowId)
  IN /\ physicalScoreTable' = (uid :> remaining) @@ physicalScoreTable
     /\ Len(entrySaves') = Len(entrySaves) + 1
     /\ entrySaves'[Len(entrySaves')] = [uid |-> uid, entries |-> remaining]

\* C25: a finalized entry of the dashboard's table stays as it is (same
\* score, volunteer, benchmark, still finalized) in every step, whatever the
\* interleaving of edits, debounced auto-saves, add-entry saves and roster
\* reloads, unless the step is the explicit removal of that entry; and an
\* entry is finalized only with a non-empty volunteer and benchmark.
C25_FinalizedEntryIsFrozen ==
  [][/\ \A uid \in DOMAIN physicalScoreTable :
          \A k \in 1..Len(physicalScoreTable[uid]) :
            physicalScoreTable[uid][k].isAdded
              => \/ \E j \in 1..Len(RowsOf(physicalScoreTable', uid)) :
                      physicalScoreTable'[uid][j] = physicalScoreTable[uid][k]
                 \/ ExplicitRemoval(uid, physicalScoreTable[uid][k].id)
     /\ \A uid \in DOMAIN physicalScoreTable' :
          \A k \in 1..Len(physicalScoreTable'[uid]) :
            physicalScoreTable'[uid][k].isAdded
              => /\ Trim(physicalScoreTable'[uid][k].volunteer) # <<>>
                 /\ Trim(physicalScoreTable'[uid][k].benchmark) # <<>>]_vars

====
